---------------------------- MODULE Spec2Model ----------------------------
(***************************************************************************)
(* A model of the chat application of src/app.py: the relational store     *)
(* (User, Room, Message rows), the browser sessions of flask-login, the    *)
(* socket.io room memberships, and one action per route / event handler.   *)
(*                                                                         *)
(* Strings the code strips or censors (user names, room names, message     *)
(* texts) are sequences of one-character tokens, so that strip() and       *)
(* censor() are computed and not assumed.  Time is counted in minutes.     *)
(***************************************************************************)
EXTENDS Integers, Sequences, FiniteSets, TLC

VARIABLES
    users,      \* the user table: a sequence of rows, the row's id is its index
    rooms,      \* the room table: a sequence of rows, the row's id is its index
    messages,   \* the message table: a sequence of rows, the row's id is its index
    session,    \* per browser: the flask-login identity of its cookie
    sock,       \* per browser: the identity its socket.io connection was opened with
    joined,     \* per browser: the socket.io rooms its connection has joined
    inflight,   \* create_room requests between their existence check and commit
    now,        \* datetime.utcnow(), in minutes
    resp        \* what the last request or event produced

vars == <<users, rooms, messages, session, sock, joined, inflight, now, resp>>

-----------------------------------------------------------------------------
(* Bounds of the model *)

NClients == 2
MaxMsgs == 1
MaxTime == 45
TickMinutes == 15

(* timedelta(minutes=30) of admin_mute *)
MuteMinutes == 30

-----------------------------------------------------------------------------
(* Values *)

Clients == 1 .. NClients

\* current_user of a browser that is not logged in (AnonymousUserMixin)
Anon == 0

\* Python's None, among strings
None == "<None>"

\* muted_until = NULL
NoTime == -1

\* A browser with no create_room request in flight
NoRequest == [user |-> 0, name |-> <<>>, private |-> FALSE]

\* bool(x) of a string or None
Truthy(x) == x # None /\ x # ""

-----------------------------------------------------------------------------
(* str.strip(), on sequences of one-character tokens *)

RECURSIVE LStrip(_)
LStrip(s) ==
    IF s = <<>> THEN <<>>
    ELSE IF Head(s) = " " THEN LStrip(Tail(s)) ELSE s

RECURSIVE RStrip(_)
RStrip(s) ==
    IF s = <<>> THEN <<>>
    ELSE IF s[Len(s)] = " " THEN RStrip(SubSeq(s, 1, Len(s) - 1)) ELSE s

Strip(s) == RStrip(LStrip(s))

(* profanity.censor(): every word of the loaded word list is replaced by   *)
(* four asterisks.  The token "x" stands for a listed word.                *)
CensorWords == {"x"}

RECURSIVE censor(_)
censor(s) ==
    IF s = <<>> THEN <<>>
    ELSE (IF Head(s) \in CensorWords THEN <<"*", "*", "*", "*">> ELSE <<Head(s)>>)
         \o censor(Tail(s))

-----------------------------------------------------------------------------
(* Credentials.  generate_password_hash / check_password_hash of           *)
(* werkzeug.security, as models.py uses them (the salt is left out).       *)

generate_password_hash(pw) ==
    CASE pw = "pa" -> "hash(pa)"
      [] pw = "pb" -> "hash(pb)"
      [] OTHER -> "hash(other)"

check_password_hash(stored, pw) == stored = generate_password_hash(pw)

-----------------------------------------------------------------------------
(* The User table *)

\* The columns of class User of app.py, with the attributes of UserMixin
UserColumns ==
    {"id", "username", "email", "password", "full_name", "phone", "gender",
     "bio", "avatar", "is_admin", "banned", "muted_until",
     "is_active", "is_authenticated", "is_anonymous", "get_id"}

\* The attributes of AnonymousUserMixin
AnonymousAttrs == {"is_active", "is_authenticated", "is_anonymous", "get_id"}

\* getattr(current_user, attr) does not raise AttributeError
HasAttr(cu, attr) == IF cu = Anon THEN attr \in AnonymousAttrs ELSE attr \in UserColumns

(* The rows a deployment starts with.  No route sets is_admin and register *)
(* cannot create a row (see register), so users exist only as rows put     *)
(* into the database beside the application: an administrator, whose       *)
(* password column holds the password as register would store it, and a    *)
(* member whose password column holds a werkzeug hash.                     *)
SeedUsers ==
    << [username |-> <<"a">>, email |-> "a@x", password |-> "pa",
        is_admin |-> TRUE, banned |-> FALSE, muted_until |-> NoTime],
       [username |-> <<"b">>, email |-> "b@x", password |-> generate_password_hash("pb"),
        is_admin |-> FALSE, banned |-> FALSE, muted_until |-> NoTime] >>

UserIds == DOMAIN users

\* User.query.filter_by(username=...).first(): the id of the row, or Anon (no row)
UserByName(name) ==
    IF \E i \in UserIds : users[i].username = name
    THEN CHOOSE i \in UserIds : users[i].username = name
    ELSE Anon

\* Room.query.filter_by(name=...).first(): the id of the row, or 0 (no row)
RoomByName(name) ==
    IF \E i \in DOMAIN rooms : rooms[i].name = name
    THEN CHOOSE i \in DOMAIN rooms : rooms[i].name = name
    ELSE 0

\* current_user.is_authenticated, as login_required tests it
LoggedIn(c) == session[c] # Anon

\* What a request or an event produced: the operation, the current_user it
\* ran as, the arguments, the outcome, and the browsers an event was emitted
\* to.
Response(op, cu, arg, outcome, to) ==
    [op |-> op, user |-> cu, arg |-> arg, outcome |-> outcome, to |-> to]

-----------------------------------------------------------------------------
(* The state of a deployment before its first request *)

Init ==
    /\ users = SeedUsers
    /\ rooms = <<>>
    /\ messages = <<>>
    /\ session = [c \in Clients |-> Anon]
    /\ sock = [c \in Clients |-> Anon]
    /\ joined = [c \in Clients |-> {}]
    /\ inflight = [c \in Clients |-> NoRequest]
    /\ now = 0
    /\ resp = Response("start", Anon, None, "ok", {})

-----------------------------------------------------------------------------
(* Registration, login, logout *)

UsernameInputs == {<<"a">>, <<" ", "b">>, <<"b">>, <<"n">>}
EmailInputs == {"a@x", "n@x"}
PasswordInputs == {"pa", "pb", "hash(pb)"}

LoginForms == [username : UsernameInputs, password : PasswordInputs]

\* The forms that log the administrator and the member in
AcceptedLogins ==
    {[username |-> <<"a">>, password |-> "pa"],
     [username |-> <<"b">>, password |-> "hash(pb)"]}

RegisterForms ==
    [username : UsernameInputs \ {<<"b">>}, email : EmailInputs, password : {"pb"}]

\* The keyword arguments register gives the User constructor
RegisterKwargs == {"username", "password", "name"}

(* POST /register.  The constructor of a declarative model raises          *)
(* TypeError for a keyword that is no attribute of the class, and User has *)
(* no attribute "name": a registration under a free user name ends in the  *)
(* constructor, before add and commit.  (With the keyword accepted, the    *)
(* commit would fail on email and full_name, which are NOT NULL and not    *)
(* given.)  The form's email is not read.                                  *)
register(c, form) ==
    LET username == Strip(form.username) IN
    /\ IF UserByName(username) # Anon
       THEN resp' = Response("register", session[c], form, "conflict", {})
       ELSE IF ~(RegisterKwargs \subseteq UserColumns)
       THEN resp' = Response("register", session[c], form, "fault", {})
       ELSE resp' = Response("register", session[c], form, "fault_integrity", {})
    /\ UNCHANGED <<users, rooms, messages, session, sock, joined, inflight, now>>

(* POST /login *)
login(c, form) ==
    LET user == UserByName(form.username) IN
    /\ IF user = Anon \/ users[user].password # form.password
       THEN /\ resp' = Response("login", session[c], form, "invalid", {})
            /\ UNCHANGED session
       ELSE IF users[user].banned
       THEN /\ resp' = Response("login", session[c], form, "banned", {})
            /\ UNCHANGED session
       ELSE /\ session' = [session EXCEPT ![c] = user]
            /\ resp' = Response("login", user, form, "ok", {})
    /\ UNCHANGED <<users, rooms, messages, sock, joined, inflight, now>>

(* GET /logout, behind login_required *)
logout(c) ==
    /\ IF ~LoggedIn(c)
       THEN /\ resp' = Response("logout", Anon, None, "unauthorized", {})
            /\ UNCHANGED session
       ELSE /\ session' = [session EXCEPT ![c] = Anon]
            /\ resp' = Response("logout", session[c], None, "ok", {})
    /\ UNCHANGED <<users, rooms, messages, sock, joined, inflight, now>>

(* The browser opens its socket.io connection.  manage_session=False: the  *)
(* handlers of the connection see the cookie of its handshake, so the      *)
(* connection keeps the identity it was opened with; a connection that is  *)
(* replaced loses its room memberships.                                    *)
connect(c) ==
    /\ sock' = [sock EXCEPT ![c] = session[c]]
    /\ joined' = [joined EXCEPT ![c] = {}]
    /\ resp' = Response("connect", session[c], None, "ok", {})
    /\ UNCHANGED <<users, rooms, messages, session, inflight, now>>

-----------------------------------------------------------------------------
(* Rooms *)

RoomNames == {<<"r">>, <<"q">>}
JoinInputs == {<<"r">>}
RoomNameInputs == {<<>>, <<" ">>, <<"r">>, <<" ", "r">>}

PrivateInputs == {None, "on"}

(* GET /room/<room_name>, behind login_required: the stored messages of    *)
(* the room (the ids of its rows, oldest first, at most 200: the model     *)
(* holds fewer), unless the room is private and the user no admin.         *)
room(c, room_name) ==
    LET r == RoomByName(room_name) IN
    /\ IF ~LoggedIn(c)
       THEN resp' = Response("room", Anon, room_name, "unauthorized", {})
       ELSE IF r = 0
       THEN resp' = Response("room", session[c], room_name, "not_found", {})
       ELSE IF rooms[r].private /\ ~users[session[c]].is_admin
       THEN resp' = Response("room", session[c], room_name, "denied", {})
       ELSE resp' = Response("room", session[c],
                             [room |-> room_name,
                              messages |-> {i \in DOMAIN messages : messages[i].room_id = r}],
                             "history", {})
    /\ UNCHANGED <<users, rooms, messages, session, sock, joined, inflight, now>>

(* POST /create_room, behind login_required, up to its existence check.    *)
(* The request that passes the check is in flight until its commit:        *)
(* requests are served by concurrent greenlets (eventlet.monkey_patch) or  *)
(* worker processes, and another request may run in between.               *)
create_room(c, name_input, private_input) ==
    LET name == Strip(name_input) IN
    /\ IF ~LoggedIn(c)
       THEN /\ resp' = Response("create_room", Anon, name, "unauthorized", {})
            /\ UNCHANGED inflight
       ELSE IF name = <<>>
       THEN /\ resp' = Response("create_room", session[c], name, "name_required", {})
            /\ UNCHANGED inflight
       ELSE IF RoomByName(name) # 0
       THEN /\ resp' = Response("create_room", session[c], name, "conflict", {})
            /\ UNCHANGED inflight
       ELSE /\ inflight[c] = NoRequest
            /\ inflight' = [inflight EXCEPT ![c] =
                                [user |-> session[c], name |-> name,
                                 private |-> Truthy(private_input)]]
            /\ resp' = Response("create_room", session[c], name, "checked", {})
    /\ UNCHANGED <<users, rooms, messages, session, sock, joined, now>>

(* db.session.add(r); db.session.commit() of create_room.  Room.name is    *)
(* unique=True: the INSERT of a name that has a row raises IntegrityError, *)
(* which create_room does not catch.                                       *)
create_room_commit(c) ==
    LET req == inflight[c] IN
    /\ req # NoRequest
    /\ inflight' = [inflight EXCEPT ![c] = NoRequest]
    /\ IF RoomByName(req.name) # 0
       THEN /\ resp' = Response("create_room", req.user, req.name, "fault", {})
            /\ UNCHANGED rooms
       ELSE /\ rooms' = Append(rooms, [name |-> req.name, private |-> req.private])
            /\ resp' = Response("create_room", req.user, req.name, "created", {})
    /\ UNCHANGED <<users, messages, session, sock, joined, now>>

-----------------------------------------------------------------------------
(* Socket.IO handlers *)

\* The connections that have joined a room: emit(..., room=room_name) reaches them
Members(room_name) == {c \in Clients : room_name \in joined[c]}

(* on 'join': join_room, then the system message, whose text reads         *)
(* current_user.name.  Neither User nor the anonymous user has an          *)
(* attribute "name": the handler ends in AttributeError after join_room.   *)
handle_join(c, room_name) ==
    /\ joined' = [joined EXCEPT ![c] = joined[c] \cup {room_name}]
    /\ IF HasAttr(sock[c], "name")
       THEN resp' = Response("join", sock[c], room_name, "system_message",
                             Members(room_name) \cup {c})
       ELSE resp' = Response("join", sock[c], room_name, "fault", {})
    /\ UNCHANGED <<users, rooms, messages, session, sock, inflight, now>>

(* on 'leave' *)
handle_leave(c, room_name) ==
    /\ joined' = [joined EXCEPT ![c] = joined[c] \ {room_name}]
    /\ IF HasAttr(sock[c], "name")
       THEN resp' = Response("leave", sock[c], room_name, "system_message",
                             Members(room_name) \ {c})
       ELSE resp' = Response("leave", sock[c], room_name, "fault", {})
    /\ UNCHANGED <<users, rooms, messages, session, sock, inflight, now>>

TextInputs == {<<>>, <<" ">>, <<" ", "h", "x", " ">>}
MediaInputs == {None, "", "m.png"}
MessageData ==
    [room : {<<"r">>}, text : TextInputs, media : MediaInputs]
    \cup {[room |-> <<"q">>, text |-> <<" ", "h", "x", " ">>, media |-> None]}

\* A guard that takes only a missing media for no media
EmptyMessage_MediaIsNone(text, media) == text = <<>> /\ media = None

\* not text and not data.get('media')
EmptyMessage(text, media) == text = <<>> /\ ~Truthy(media)

\* current_user.muted_until and current_user.muted_until > datetime.utcnow()
Muted(user) == user.muted_until # NoTime /\ user.muted_until > now

(* on 'send_message'.  The row is committed before the payload is built;   *)
(* the payload reads current_user.name, which no User has, so the handler  *)
(* ends in AttributeError after the commit and before emit('new_message'). *)
handle_message(c, data) ==
    LET text == Strip(data.text)
        cu == sock[c]
        r == RoomByName(data.room)
        stored == censor(text)
    IN
    /\ IF EmptyMessage(text, data.media)
       THEN /\ resp' = Response("send_message", cu, data, "silent", {})
            /\ UNCHANGED messages
       ELSE IF cu = Anon
       THEN /\ resp' = Response("send_message", cu, data, "error_auth", {c})
            /\ UNCHANGED messages
       ELSE IF users[cu].banned
       THEN /\ resp' = Response("send_message", cu, data, "error_banned", {c})
            /\ UNCHANGED messages
       ELSE IF Muted(users[cu])
       THEN /\ resp' = Response("send_message", cu, data, "error_muted", {c})
            /\ UNCHANGED messages
       ELSE IF r = 0
       THEN /\ resp' = Response("send_message", cu, data, "error_room", {c})
            /\ UNCHANGED messages
       ELSE /\ Len(messages) < MaxMsgs
            /\ messages' = Append(messages,
                   [room_id |-> r, user_id |-> cu, text |-> stored,
                    media |-> data.media])
            /\ IF HasAttr(cu, "name")
               THEN resp' = Response("send_message", cu, data, "new_message",
                                     Members(data.room))
               ELSE resp' = Response("send_message", cu, data, "fault", {})
    /\ UNCHANGED <<users, rooms, session, sock, joined, inflight, now>>

-----------------------------------------------------------------------------
(* Admin actions, behind login_required *)

\* The ids a request may name: the rows, and one id without a row
UserIdInputs == 1 .. (Len(SeedUsers) + 1)

\* A gate that leaves out the is_admin test
AdminGate_NoRoleTest(c, user_id) ==
    IF ~LoggedIn(c) THEN "unauthorized"
    ELSE IF user_id \notin UserIds THEN "not_found"
    ELSE "ok"

\* login_required, abort(403), get_or_404: the outcome that ends the request
\* before its update, or "ok"
AdminGate(c, user_id) ==
    IF ~LoggedIn(c) THEN "unauthorized"
    ELSE IF ~users[session[c]].is_admin THEN "forbidden"
    ELSE IF user_id \notin UserIds THEN "not_found"
    ELSE "ok"

admin_ban(c, user_id) ==
    /\ IF AdminGate(c, user_id) = "ok"
       THEN users' = [users EXCEPT ![user_id].banned = TRUE]
       ELSE UNCHANGED users
    /\ resp' = Response("admin_ban", session[c], user_id, AdminGate(c, user_id), {})
    /\ UNCHANGED <<rooms, messages, session, sock, joined, inflight, now>>

admin_unban(c, user_id) ==
    /\ IF AdminGate(c, user_id) = "ok"
       THEN users' = [users EXCEPT ![user_id].banned = FALSE]
       ELSE UNCHANGED users
    /\ resp' = Response("admin_unban", session[c], user_id, AdminGate(c, user_id), {})
    /\ UNCHANGED <<rooms, messages, session, sock, joined, inflight, now>>

admin_mute(c, user_id) ==
    /\ IF AdminGate(c, user_id) = "ok"
       THEN users' = [users EXCEPT ![user_id].muted_until = now + MuteMinutes]
       ELSE UNCHANGED users
    /\ resp' = Response("admin_mute", session[c], user_id, AdminGate(c, user_id), {})
    /\ UNCHANGED <<rooms, messages, session, sock, joined, inflight, now>>

-----------------------------------------------------------------------------
(* The clock *)

Tick ==
    /\ now + TickMinutes <= MaxTime
    /\ now' = now + TickMinutes
    /\ resp' = Response("tick", Anon, None, "ok", {})
    /\ UNCHANGED <<users, rooms, messages, session, sock, joined, inflight>>

-----------------------------------------------------------------------------

(* Every request and event of the application *)
Next ==
    \/ \E c \in Clients, form \in RegisterForms : register(c, form)
    \/ \E c \in Clients, form \in LoginForms : login(c, form)
    \/ \E c \in Clients : logout(c)
    \/ \E c \in Clients : connect(c)
    \/ \E c \in Clients, n \in RoomNames : room(c, n)
    \/ \E c \in Clients, n \in RoomNameInputs, p \in PrivateInputs : create_room(c, n, p)
    \/ \E c \in Clients : create_room_commit(c)
    \/ \E c \in Clients, n \in JoinInputs : handle_join(c, n)
    \/ \E c \in Clients, n \in JoinInputs : handle_leave(c, n)
    \/ \E c \in Clients, data \in MessageData : handle_message(c, data)
    \/ \E c \in Clients, u \in UserIdInputs : admin_ban(c, u)
    \/ \E c \in Clients, u \in UserIdInputs : admin_unban(c, u)
    \/ \E c \in Clients, u \in UserIdInputs : admin_mute(c, u)
    \/ Tick

Spec == Init /\ [][Next]_vars

(* The behaviours of Spec are explored in four parts, each the requests    *)
(* and events of one area of the application; every behaviour of a part is *)
(* a behaviour of Spec.                                                    *)

(* Accounts: registration and login of two browsers, with the ban that     *)
(* login tests.                                                            *)
AuthNext ==
    \/ \E c \in Clients, form \in RegisterForms : register(c, form)
    \/ \E c \in Clients, form \in LoginForms : login(c, form)
    \/ \E c \in Clients : logout(c)
    \/ \E c \in Clients, u \in UserIdInputs : admin_ban(c, u)
    \/ \E c \in Clients, u \in UserIdInputs : admin_unban(c, u)

SpecAuth == Init /\ [][AuthNext]_vars

(* Rooms: two browsers that log in, open connections, create rooms         *)
(* concurrently, read rooms and join and leave them.                       *)
RoomsNext ==
    \/ \E c \in Clients, form \in AcceptedLogins : login(c, form)
    \/ \E c \in Clients : logout(c)
    \/ \E c \in Clients : connect(c)
    \/ \E c \in Clients, n \in RoomNames : room(c, n)
    \/ \E c \in Clients, n \in RoomNameInputs, p \in PrivateInputs : create_room(c, n, p)
    \/ \E c \in Clients : create_room_commit(c)
    \/ \E c \in Clients, n \in JoinInputs : handle_join(c, n)
    \/ \E c \in Clients, n \in JoinInputs : handle_leave(c, n)

SpecRooms == Init /\ [][RoomsNext]_vars

(* Moderation: the admin actions of two browsers on every user id, and    *)
(* the messages of the first browser's connection under them.             *)
AdminNext ==
    \/ \E c \in Clients, form \in AcceptedLogins : login(c, form)
    \/ \E c \in Clients : logout(c)
    \/ connect(1)
    \/ \E data \in MessageData : handle_message(1, data)
    \/ \E c \in Clients, u \in UserIdInputs : admin_ban(c, u)
    \/ \E c \in Clients, u \in UserIdInputs : admin_unban(c, u)
    \/ \E c \in Clients, u \in UserIdInputs : admin_mute(c, u)
    \/ Tick

SpecAdmin == Init /\ [][AdminNext]_vars

(* Messages: one browser, whose connection keeps the identity it was       *)
(* opened with while its cookie changes hands; the admin actions are on    *)
(* the member and on an id without a row.                                  *)
ChatNext ==
    \/ \E form \in AcceptedLogins : login(1, form)
    \/ logout(1)
    \/ connect(1)
    \/ \E n \in RoomNameInputs, p \in PrivateInputs : create_room(1, n, p)
    \/ create_room_commit(1)
    \/ \E data \in MessageData : handle_message(1, data)
    \/ \E u \in UserIdInputs \ {1} : admin_ban(1, u)
    \/ \E u \in UserIdInputs \ {1} : admin_unban(1, u)
    \/ \E u \in UserIdInputs \ {1} : admin_mute(1, u)
    \/ Tick

SpecChat == Init /\ [][ChatNext]_vars

-----------------------------------------------------------------------------
(* Properties *)

\* The last step was a send_message event
Sent == resp.op = "send_message"

\* A send_message carried no text after trimming and no media
EmptyData(data) == Strip(data.text) = <<>> /\ ~Truthy(data.media)

\* The outcomes of send_message that emit 'error' to the sender
ErrorOutcomes == {"error_auth", "error_banned", "error_muted", "error_room"}

(* C1: every send_message of a banned sender, whatever its text and media  *)
(* (empty text with no media included), gets the error event 'You are      *)
(* banned.', persists no Message row and broadcasts no new_message.        *)
C1_BannedAlwaysDenied ==
    [][(resp'.op = "send_message" /\ resp'.user # Anon /\ users[resp'.user].banned)
        => (/\ resp'.outcome = "error_banned"
            /\ messages' = messages)]_vars

(* C2: a non-empty send_message to an existing room by a user who was      *)
(* muted and is not banned is denied with an error, and persists nothing,  *)
(* strictly before muted_until; at or after muted_until it is persisted    *)
(* and new_message goes to every connection joined to the room.            *)
C2_MuteLapses ==
    [][(/\ resp'.op = "send_message"
        /\ resp'.user # Anon
        /\ Strip(resp'.arg.text) # <<>>
        /\ RoomByName(resp'.arg.room) # 0
        /\ ~users[resp'.user].banned
        /\ users[resp'.user].muted_until # NoTime)
        => IF now < users[resp'.user].muted_until
           THEN resp'.outcome = "error_muted" /\ messages' = messages
           ELSE /\ Len(messages') = Len(messages) + 1
                /\ resp'.outcome = "new_message"
                /\ resp'.to = Members(resp'.arg.room)]_vars

(* C3: no Message row has empty text and no media, a send_message that is  *)
(* empty after trimming and carries no media ends before the insert, and   *)
(* no new_message carries such a payload.                                  *)
C3_EmptyNeverPersisted ==
    /\ \A i \in DOMAIN messages :
          ~(messages[i].text = <<>> /\ ~Truthy(messages[i].media))
    /\ (Sent /\ EmptyData(resp.arg)) => resp.outcome \notin {"new_message", "fault"}
    /\ (Sent /\ resp.outcome = "new_message") =>
          ~(censor(Strip(resp.arg.text)) = <<>> /\ ~Truthy(resp.arg.media))

\* A whitespace-only send_message without media of a logged-in user in good
\* standing to an existing room was just dropped, and the table holds a row
\* of empty text that carries media.
C3_Witness ==
    /\ Sent /\ resp.outcome = "silent"
    /\ resp.arg.text = <<" ">> /\ resp.arg.media = ""
    /\ resp.user # Anon /\ ~users[resp.user].banned /\ ~Muted(users[resp.user])
    /\ RoomByName(resp.arg.room) # 0
    /\ \E i \in DOMAIN messages : messages[i].text = <<>> /\ messages[i].media = "m.png"

\* current_user is a logged-in user with is_admin
IsAdmin(cu) == cu # Anon /\ users[cu].is_admin

\* The room table holds a private room of this name
PrivateRoom(name) == RoomByName(name) # 0 /\ rooms[RoomByName(name)].private

(* C4: a user who is no admin is never given the stored messages of a      *)
(* private room by GET /room/<name>, and a join event of the connection of *)
(* a logged-in user who is no admin never makes it a member of a private   *)
(* room.                                                                   *)
C4_PrivateRoomAdminsOnly ==
    [][/\ (resp'.op = "room" /\ resp'.outcome = "history" /\ PrivateRoom(resp'.arg.room))
            => IsAdmin(resp'.user)
       /\ (/\ resp'.op = "join" /\ PrivateRoom(resp'.arg)
           /\ resp'.user # Anon /\ ~users[resp'.user].is_admin)
            => joined' = joined]_vars

(* C5: a create_room request for a name that has a Room row ends in the    *)
(* 'Room exists' notice, also when the row was committed after the         *)
(* request's own existence check, and it adds no row; no two Room rows     *)
(* share a name.                                                           *)
C5_LoserGetsConflict ==
    [][/\ (resp'.op = "create_room" /\ resp'.user # Anon /\ RoomByName(resp'.arg) # 0)
            => (resp'.outcome = "conflict" /\ rooms' = rooms)
       /\ \A i, j \in DOMAIN rooms' : rooms'[i].name = rooms'[j].name => i = j]_vars

AdminOps == {"admin_ban", "admin_unban", "admin_mute"}

\* The moderation fields of the user table
Moderation(table) ==
    [i \in DOMAIN table |-> <<table[i].banned, table[i].muted_until>>]

(* C6: an admin action of a logged-in user who is no admin ends in 403     *)
(* Forbidden and leaves the user table as it was, and the banned and       *)
(* muted_until fields change only in a step that is an admin action of a   *)
(* user with is_admin.  (A caller who is not logged in is sent to the      *)
(* login page by login_required, and changes nothing either.)              *)
C6_AdminGated ==
    [][/\ (resp'.op \in AdminOps /\ resp'.user # Anon /\ ~IsAdmin(resp'.user))
            => (resp'.outcome = "forbidden" /\ users' = users)
       /\ (Moderation(users') # Moderation(users))
            => (resp'.op \in AdminOps /\ IsAdmin(resp'.user) /\ resp'.outcome = "ok")]_vars

\* The member, banned by the administrator, has just been refused an unban
\* of himself with 403.
C6_Witness ==
    /\ resp.op = "admin_unban" /\ resp.outcome = "forbidden"
    /\ resp.user = 2 /\ resp.arg = 2
    /\ users[2].banned /\ ~users[2].is_admin

(* C7: a registration whose user name or email has a User row ends in a    *)
(* Conflict notice and leaves the user table as it was; no two rows share  *)
(* a user name or an email.                                                *)
C7_DuplicateIsConflict ==
    [][/\ (/\ resp'.op = "register"
           /\ \/ UserByName(Strip(resp'.arg.username)) # Anon
              \/ \E i \in UserIds : users[i].email = resp'.arg.email)
            => (resp'.outcome = "conflict" /\ users' = users)
       /\ \A i, j \in DOMAIN users' :
             (users'[i].username = users'[j].username \/ users'[i].email = users'[j].email)
                => i = j]_vars

(* C8: a login is accepted only when the submitted password verifies       *)
(* against the stored credential as a hash of it.                          *)
C8_LoginVerifiesHash ==
    (resp.op = "login" /\ resp.outcome = "ok")
        => check_password_hash(users[resp.user].password, resp.arg.password)

(* C9: every send_message that persists no Message row emits an 'error'    *)
(* event to the sender, and the reasons are tested in the order            *)
(* authentication, moderation, emptiness.                                  *)
C9_RejectionsSignalled ==
    [][(resp'.op = "send_message" /\ messages' = messages)
        => /\ resp'.outcome \in ErrorOutcomes \cup {"error_empty"}
           /\ resp'.user = Anon => resp'.outcome = "error_auth"
           /\ (resp'.user # Anon /\ users[resp'.user].banned)
                => resp'.outcome = "error_banned"
           /\ (resp'.user # Anon /\ ~users[resp'.user].banned /\ Muted(users[resp'.user]))
                => resp'.outcome = "error_muted"]_vars

(* C10: every connection that is a member of a room is the connection of   *)
(* an authenticated user.                                                  *)
C10_MembersAuthenticated ==
    \A c \in Clients : joined[c] # {} => sock[c] # Anon

=============================================================================
